---- MODULE Spec2Model ----
(***************************************************************************)
(* A model of napari_geojson/_reader.py: the reader hook                   *)
(* napari_get_reader, the converter geojson_reader and the coordinate      *)
(* extraction geom2xy.                                                     *)
(*                                                                         *)
(* Python strings are sequences of one-character strings, so that          *)
(* str.lower, Path.suffix and string concatenation are computed.           *)
(* Coordinates are integers (the code holds them as floats; no arithmetic  *)
(* is done on them besides the geometry library's validity test).          *)
(***************************************************************************)
EXTENDS Integers, Sequences, FiniteSets, TLC

VARIABLES
    pc,          \* position of the host / of geojson_reader
    arg,         \* the argument of the running call
    ret,         \* what the call gave back: a value, or the exception raised
    paths,       \* geojson_reader: the list iterated by the for loop (line 55)
    layers,      \* geojson_reader: the list returned (line 56)
    i,           \* number of paths the for loop of line 61 has taken
    geo,         \* the object geojson.load returned (line 69)
    j,           \* number of features the for loop of line 72 has taken
    layer_data,              \* line 63
    layer_shape_type,        \* line 64
    layer_shape_edge_width,  \* line 65
    layer_shape_edge_color,  \* line 66
    layer_shape_face_color,  \* line 67
    handles,     \* the file handles that are open (indices into paths)
    opened       \* every path given to open() so far, in call order

vars == <<pc, arg, ret, paths, layers, i, geo, j, layer_data, layer_shape_type,
          layer_shape_edge_width, layer_shape_edge_color, layer_shape_face_color,
          handles, opened>>

\* ------------------------------------------------------------------ bounds

\* Longest list of paths given to geojson_reader.
MaxPaths == 2

\* Longest feature list of a file.
MaxFeatures == 2

\* ----------------------------------------------------------------- strings

UpperCase == <<"A","B","C","D","E","F","G","H","I","J","K","L","M",
               "N","O","P","Q","R","S","T","U","V","W","X","Y","Z">>

LowerCase == <<"a","b","c","d","e","f","g","h","i","j","k","l","m",
               "n","o","p","q","r","s","t","u","v","w","x","y","z">>

LowerChar(c) ==
    IF \E k \in 1..Len(UpperCase) : UpperCase[k] = c
    THEN LowerCase[CHOOSE k \in 1..Len(UpperCase) : UpperCase[k] = c]
    ELSE c

\* str.lower()
Lower(s) == [k \in 1..Len(s) |-> LowerChar(s[k])]

\* str.rfind(c): the last index of c (from 1), 0 when there is none
\* (Python's -1 .. len-1 shifted by one).
RFind(s, c) ==
    IF \E k \in 1..Len(s) : s[k] = c
    THEN CHOOSE k \in 1..Len(s) : s[k] = c /\ \A m \in (k+1)..Len(s) : s[m] # c
    ELSE 0

\* The components of a POSIX path as pathlib parses it: the text between
\* slashes, with the empty and the "." components dropped.
RECURSIVE Components(_)
Components(s) ==
    IF Len(s) = 0 THEN <<>>
    ELSE LET cut  == IF \E k \in 1..Len(s) : s[k] = "/"
                     THEN CHOOSE k \in 1..Len(s) :
                              s[k] = "/" /\ \A m \in 1..(k-1) : s[m] # "/"
                     ELSE Len(s) + 1
             head == SubSeq(s, 1, cut - 1)
             rest == Components(SubSeq(s, cut + 1, Len(s)))
         IN  IF head = <<>> \/ head = <<".">> THEN rest ELSE <<head>> \o rest

\* PurePath.name: the last component, "" when the path has none.
PathName(s) ==
    LET cs == Components(s) IN IF cs = <<>> THEN <<>> ELSE cs[Len(cs)]

\* PurePath.suffix: name[i:] for i = name.rfind('.') when 0 < i < len(name)-1
\* (Python indices), else "".
PathSuffix(s) ==
    LET name == PathName(s)
        d    == RFind(name, ".")
    IN  IF 1 < d /\ d < Len(name) THEN SubSeq(name, d, Len(name)) ELSE <<>>

DotGeojson == <<".","g","e","o","j","s","o","n">>

\* ------------------------------------------------------------ the sniffer

\* The values a caller may hand to napari_get_reader: a str, a list of str,
\* None, an int.
StrVal(s)  == [kind |-> "str", val |-> s]
ListVal(l) == [kind |-> "list", val |-> l]
NoneVal    == [kind |-> "None"]
IntVal(n)  == [kind |-> "int", val |-> n]

\* What napari_get_reader returns: the function geojson_reader, or None.
ReaderRef == [kind |-> "function", name |-> "geojson_reader"]

\* A plausible slip: the extension compared as written.
napari_get_reader_case_sensitive(path) ==
    IF path.kind = "str" /\ PathSuffix(path.val) = DotGeojson
    THEN ReaderRef ELSE NoneVal

napari_get_reader(path) ==
    IF path.kind = "str" /\ Lower(PathSuffix(path.val)) = DotGeojson
    THEN ReaderRef ELSE NoneVal

\* The strings the host is modelled to probe with: a directory part, a stem,
\* an extension and a trailing part, concatenated.
SniffDirs == { <<>>, <<"d","/">>, <<"/">>,
               <<"x",".","g","e","o","j","s","o","n","/">> }

SniffStems == { <<>>, <<"a">>, <<"a",".","b">> }

SniffExts == { <<>>, DotGeojson,
               <<".","G","e","o","J","S","O","N">>,
               <<".","G","E","O","J","S","O","N">>,
               <<".","g","e","o","j","s","o">>,
               <<".","g","e","o","j","s","o","n","x">>,
               <<".","j","s","o","n">>,
               <<"g","e","o","j","s","o","n">> }

SniffTrails == { <<>>, <<"/">>, <<"/",".">>, <<".">>,
                 <<".","b","a","k">>, <<"/","b">> }

SniffStrings ==
    { d \o s \o e \o t : d \in SniffDirs, s \in SniffStems,
                         e \in SniffExts, t \in SniffTrails }

\* The two paths geojson_reader is called with.
PathA == <<"a",".","g","e","o","j","s","o","n">>
PathB == <<"b",".","G","e","o","J","S","O","N">>
ReaderPaths == {PathA, PathB}

RECURSIVE SeqsUpTo(_, _)
SeqsUpTo(S, n) ==
    IF n = 0 THEN { <<>> }
    ELSE LET shorter == SeqsUpTo(S, n - 1)
         IN  shorter \cup { Append(q, x) : q \in shorter, x \in S }

\* The lists of paths given: A, B, A, ... cut at every length up to MaxPaths.
\* (A path's name decides nothing in geojson_reader: what a file holds is
\* chosen when it is read.)
PathLists ==
    { [k \in 1..n |-> IF k % 2 = 1 THEN PathA ELSE PathB] : n \in 0..MaxPaths }

SniffInputs ==
    { StrVal(s) : s \in SniffStrings } \cup { ListVal(l) : l \in PathLists }
        \cup { NoneVal, IntVal(7) }

\* ------------------------------------------------- the geometry library
\* shapely.geometry.shape, BaseGeometry.is_valid and Polygon.exterior, as far
\* as the reader uses them, on GeoJSON geometries with integer coordinates.

StrPoint        == <<"P","o","i","n","t">>
StrLineString   == <<"L","i","n","e","S","t","r","i","n","g">>
StrPolygon      == <<"P","o","l","y","g","o","n">>
StrMultiPolygon == <<"M","u","l","t","i","P","o","l","y","g","o","n">>

\* A LinearRing built from a coordinate list: closed by repeating the first
\* coordinate when the list is not closed already.
CloseRing(r) ==
    IF Len(r) > 0 /\ r[1] # r[Len(r)] THEN Append(r, r[1]) ELSE r

\* The constructor refuses a ring of fewer than 4 coordinates.
RingBuilds(r) == Len(CloseRing(r)) >= 4

PolygonBuilds(rings) ==
    Len(rings) > 0 /\ \A k \in 1..Len(rings) : RingBuilds(rings[k])

BuildPolygon(rings) ==
    [geom_type |-> StrPolygon,
     exterior  |-> CloseRing(rings[1]),
     interiors |-> [k \in 1..(Len(rings) - 1) |-> CloseRing(rings[k + 1])]]

\* shg.shape(obj['geometry']): the geometry object, or the exception the
\* constructor raises. Only a Polygon has the attribute exterior.
ShapeError == [exception |-> "ValueError"]

shape(g) ==
    IF g.type = StrPoint THEN
        [geom_type |-> StrPoint, coords |-> <<g.coordinates>>]
    ELSE IF g.type = StrLineString THEN
        IF Len(g.coordinates) >= 2
        THEN [geom_type |-> StrLineString, coords |-> g.coordinates]
        ELSE ShapeError
    ELSE IF g.type = StrPolygon THEN
        IF PolygonBuilds(g.coordinates) THEN BuildPolygon(g.coordinates)
        ELSE ShapeError
    ELSE IF g.type = StrMultiPolygon THEN
        IF \A k \in 1..Len(g.coordinates) : PolygonBuilds(g.coordinates[k])
        THEN [geom_type |-> StrMultiPolygon,
              geoms |-> [k \in 1..Len(g.coordinates) |->
                            BuildPolygon(g.coordinates[k])]]
        ELSE ShapeError
    ELSE ShapeError

Cross(o, a, b) ==
    (a[1] - o[1]) * (b[2] - o[2]) - (a[2] - o[2]) * (b[1] - o[1])

Min(a, b) == IF a < b THEN a ELSE b
Max(a, b) == IF a > b THEN a ELSE b

OnSegment(p, a, b) ==
    /\ Cross(a, b, p) = 0
    /\ Min(a[1], b[1]) <= p[1] /\ p[1] <= Max(a[1], b[1])
    /\ Min(a[2], b[2]) <= p[2] /\ p[2] <= Max(a[2], b[2])

\* Whether the closed segments ab and cd share a point.
SegmentsMeet(a, b, c, d) ==
    \/ /\ Cross(c, d, a) * Cross(c, d, b) < 0
       /\ Cross(a, b, c) * Cross(a, b, d) < 0
    \/ OnSegment(a, c, d) \/ OnSegment(b, c, d)
    \/ OnSegment(c, a, b) \/ OnSegment(d, a, b)

\* A closed ring is simple: edges that are not neighbours share no point, and
\* neighbours share only their common vertex.
RingSimple(r) ==
    LET n == Len(r) - 1
        nxt(e) == IF e = n THEN 1 ELSE e + 1
    IN  /\ n >= 3
        /\ \A e \in 1..n : r[e] # r[e + 1]
        /\ \A e, f \in 1..n :
              e < f =>
                IF nxt(e) = f
                    THEN ~OnSegment(r[e], r[f], r[f + 1])
                         /\ ~OnSegment(r[f + 1], r[e], r[e + 1])
                ELSE IF nxt(f) = e
                    THEN ~OnSegment(r[f], r[e], r[e + 1])
                         /\ ~OnSegment(r[e + 1], r[f], r[f + 1])
                ELSE ~SegmentsMeet(r[e], r[e + 1], r[f], r[f + 1])

\* p lies strictly inside the simple closed ring r (crossing number of the
\* ray from p towards +x).
StrictlyInside(p, r) ==
    LET n == Len(r) - 1
        crosses(e) ==
            LET a == r[e]
                b == r[e + 1]
            IN  /\ (a[2] > p[2]) # (b[2] > p[2])
                /\ IF b[2] > a[2]
                   THEN (p[1] - a[1]) * (b[2] - a[2]) < (p[2] - a[2]) * (b[1] - a[1])
                   ELSE (p[1] - a[1]) * (b[2] - a[2]) > (p[2] - a[2]) * (b[1] - a[1])
    IN  /\ \A e \in 1..n : ~OnSegment(p, r[e], r[e + 1])
        /\ Cardinality({ e \in 1..n : crosses(e) }) % 2 = 1

\* A hole is a simple ring strictly inside the shell. (Holes that touch the
\* shell in one point, or each other, are left out of the modelled inputs.)
HoleValid(h, shell) ==
    /\ RingSimple(h)
    /\ \A k \in 1..Len(h) : StrictlyInside(h[k], shell)
    /\ \A e \in 1..(Len(h) - 1), f \in 1..(Len(shell) - 1) :
          ~SegmentsMeet(h[e], h[e + 1], shell[f], shell[f + 1])

PolygonValid(p) ==
    /\ RingSimple(p.exterior)
    /\ \A k \in 1..Len(p.interiors) : HoleValid(p.interiors[k], p.exterior)

\* shape.is_valid
is_valid(s) ==
    IF s.geom_type = StrPoint THEN TRUE
    ELSE IF s.geom_type = StrLineString THEN
        \E k, m \in 1..Len(s.coords) : s.coords[k] # s.coords[m]
    ELSE IF s.geom_type = StrPolygon THEN PolygonValid(s)
    ELSE \A k \in 1..Len(s.geoms) : PolygonValid(s.geoms[k])

\* ------------------------------------------------------------ geom2xy

\* The value of a call: what it returned, or the exception it raised.
Returned(v) == [ok |-> TRUE, value |-> v]
Raised(e)   == [ok |-> FALSE, exception |-> e]

\* list(zip(*coords.xy)): the x and the y arrays paired up again.
ZipXY(coords) ==
    LET xs == [k \in 1..Len(coords) |-> coords[k][1]]
        ys == [k \in 1..Len(coords) |-> coords[k][2]]
    IN  [k \in 1..Len(coords) |-> <<xs[k], ys[k]>>]

\* A plausible slip: every ring of the polygon taken, the holes included.
RECURSIVE Flatten(_)
Flatten(rings) ==
    IF rings = <<>> THEN <<>> ELSE rings[1] \o Flatten(Tail(rings))

geom2xy_with_holes(geom) ==
    IF "exterior" \in DOMAIN geom
    THEN Returned(ZipXY(geom.exterior \o Flatten(geom.interiors)))
    ELSE Raised("AttributeError")

\* A plausible repair of the Point and LineString branches that forgets the
\* shape_type entry: the coordinates of any geometry that has some.
geom2xy_any(geom) ==
    IF "exterior" \in DOMAIN geom THEN Returned(ZipXY(geom.exterior))
    ELSE IF "coords" \in DOMAIN geom THEN Returned(ZipXY(geom.coords))
    ELSE Raised("AttributeError")

\* geom2xy(geom): the (N x 2) array of the exterior ring, one row for each
\* coordinate. A geometry without the attribute exterior raises
\* AttributeError.
geom2xy(geom) ==
    IF "exterior" \in DOMAIN geom THEN Returned(ZipXY(geom.exterior))
    ELSE Raised("AttributeError")

\* ------------------------------------------------------- geojson_reader

defaults ==
    [shape_edge_width |-> 100, shape_edge_color |-> "red",
     shape_face_color |-> "blue", opacity |-> "0.25", blending |-> "opaque"]

StrFeatureCollectionLower == <<"f","e","a","t","u","r","e","c","o","l","l","e","c","t","i","o","n">>

ErrorPrefix ==
    <<"N","e","e","d"," ","a"," ","F","e","a","t","u","r","e","C","o","l","l","e","c","t","i","o","n"," ","a","s"," ","a","n","n","o","t","a","t","i","o","n","!"," ">>
        \o <<"G","o","t",":"," ">>

\* paths = [path] if isinstance(path, str) else path
AsPaths(path) == IF path.kind = "str" THEN <<path.val>> ELSE path.val

\* A plausible slip: the type compared as written.
IsFeatureCollection_case_sensitive(g) ==
    g.type = <<"F","e","a","t","u","r","e","C","o","l","l","e","c","t","i","o","n">>

\* not (geo["type"].lower() != "featurecollection")
IsFeatureCollection(g) == Lower(g.type) = StrFeatureCollectionLower

\* RuntimeError("Need a FeatureCollection as annotation! Got: " + geo["type"])
FormatError(g) == [type |-> "RuntimeError", msg |-> ErrorPrefix \o g.type]

\* The five lists of one file (lines 63-67).
EmptyLists ==
    [data |-> <<>>, shape_type |-> <<>>, edge_width |-> <<>>,
     edge_color |-> <<>>, face_color |-> <<>>]

\* A plausible slip: an invalid geometry is not skipped.
SkipsInvalid_never(s) == FALSE

\* if not shape.is_valid: continue
SkipsInvalid(s) == ~is_valid(s)

AppendShapeType(L) == [L EXCEPT !.shape_type = Append(@, "polygon")]

AppendStyle(L) ==
    [L EXCEPT !.edge_width = Append(@, defaults.shape_edge_width),
              !.edge_color = Append(@, defaults.shape_edge_color),
              !.face_color = Append(@, defaults.shape_face_color)]

\* A plausible slip: the array put at the front of the list.
AppendData_front(L, xy) == [L EXCEPT !.data = <<xy>> \o @]

AppendData(L, xy) == [L EXCEPT !.data = Append(@, xy)]

\* One pass of the body of the loop over geo['features'] (lines 73-91): the
\* lists after it, and the exception that ended it, if any.
LoopBody(L, obj) ==
    LET s == shape(obj.geometry)
    IN  IF "exception" \in DOMAIN s THEN [lists |-> L, exc |-> s.exception]
        ELSE IF SkipsInvalid(s) THEN [lists |-> L, exc |-> "none"]
        ELSE
          LET t  == Lower(s.geom_type)
              L1 == IF t = Lower(StrPolygon) THEN AppendShapeType(L) ELSE L
          IN  IF t \notin {Lower(StrPoint), Lower(StrLineString), Lower(StrPolygon)}
              THEN [lists |-> L, exc |-> "none"]
              ELSE LET L2 == AppendStyle(L1)
                       xy == geom2xy(s)
                   IN  IF xy.ok
                       THEN [lists |-> AppendData(L2, xy.value), exc |-> "none"]
                       ELSE [lists |-> L2, exc |-> xy.exception]

\* The tuple appended to layers (lines 93-104).
LayerTuple(L) ==
    <<L.data,
      [shape_type |-> L.shape_type,
       edge_width |-> L.edge_width,
       edge_color |-> L.edge_color,
       face_color |-> L.face_color,
       opacity    |-> defaults.opacity,
       blending   |-> defaults.blending],
      "shapes">>

\* A plausible slip: the new layer put in front of the others.
AppendLayer_front(ls, t) == <<t>> \o ls

AppendLayer(ls, t) == Append(ls, t)

\* A plausible slip: the file left open (no with statement).
CloseOnExit_leak(hs, h) == hs

\* The with statement of line 68 leaving its block, normally or by an
\* exception: the file is closed.
CloseOnExit(hs, h) == hs \ {h}

\* A plausible slip: a failing file handled by giving back the layers built
\* so far.
Propagate_partial(e, ls) == [kind |-> "value", val |-> ls]

\* An exception leaves geojson_reader: the caller gets the exception and
\* nothing of the local list layers.
Propagate(e, ls) == [kind |-> "exception", exc |-> e]

\* ------------------------------------------------------ the files read

\* The unit square: one closed ring.
SquareRing == << <<0,0>>, <<0,1>>, <<1,1>>, <<1,0>>, <<0,0>> >>
Square == [type |-> StrPolygon, coordinates |-> <<SquareRing>>]

\* A polygon with one hole.
OuterRing == << <<0,0>>, <<0,4>>, <<4,4>>, <<4,0>>, <<0,0>> >>
HoleRing  == << <<1,1>>, <<2,1>>, <<2,2>>, <<1,2>>, <<1,1>> >>
Holed == [type |-> StrPolygon, coordinates |-> <<OuterRing, HoleRing>>]

\* A self-intersecting polygon: it builds, and is not valid.
BowtieRing == << <<0,0>>, <<2,2>>, <<2,0>>, <<0,2>>, <<0,0>> >>
Bowtie == [type |-> StrPolygon, coordinates |-> <<BowtieRing>>]

\* A ring of two coordinates: the constructor raises.
ShortRing == [type |-> StrPolygon, coordinates |-> << << <<0,0>>, <<1,1>> >> >>]

APoint == [type |-> StrPoint, coordinates |-> <<1,2>>]

ALine == [type |-> StrLineString, coordinates |-> << <<0,0>>, <<1,1>> >>]

AMulti == [type |-> StrMultiPolygon, coordinates |-> << <<SquareRing>> >>]

Geometries == {Square, Holed, Bowtie, ShortRing, APoint, ALine, AMulti}

Features == { [geometry |-> g] : g \in Geometries }

FeatureLists == SeqsUpTo(Features, MaxFeatures)

StrFeatureCollection ==
    <<"F","e","a","t","u","r","e","C","o","l","l","e","c","t","i","o","n">>

AcceptedTypes == { StrFeatureCollection,
                   <<"f","e","a","t","u","r","e","c","o","l","l","e","c","t","i","o","n">>,
                   <<"F","E","A","T","U","R","E","C","O","L","L","E","C","T","I","O","N">> }

StrGeometryCollection == <<"G","e","o","m","e","t","r","y","C","o","l","l","e","c","t","i","o","n">>

OtherTypes == { StrGeometryCollection, <<"F","e","a","t","u","r","e">> }

TopTypes == AcceptedTypes \cup OtherTypes

\* What geojson.load can give for a file: a JSON object with a type and a
\* feature list. (Objects without one of the two keys are not modelled.) Every
\* feature list comes with the type as the standard writes it; the other
\* spellings and the other types come with the lists of at most one feature.
GeoObjects ==
    { [type |-> StrFeatureCollection, features |-> fs] : fs \in FeatureLists }
        \cup { [type |-> t, features |-> fs] :
                  t \in TopTypes, fs \in SeqsUpTo(Features, 1) }

ReaderInputs ==
    { StrVal(q) : q \in ReaderPaths } \cup { ListVal(l) : l \in PathLists }

Unbound == [kind |-> "unbound"]

Lists ==
    [data |-> layer_data, shape_type |-> layer_shape_type,
     edge_width |-> layer_shape_edge_width,
     edge_color |-> layer_shape_edge_color,
     face_color |-> layer_shape_face_color]

SetLists(L) ==
    /\ layer_data' = L.data
    /\ layer_shape_type' = L.shape_type
    /\ layer_shape_edge_width' = L.edge_width
    /\ layer_shape_edge_color' = L.edge_color
    /\ layer_shape_face_color' = L.face_color

listVars == <<layer_data, layer_shape_type, layer_shape_edge_width,
              layer_shape_edge_color, layer_shape_face_color>>

Pending(e) == [kind |-> "pending", exc |-> e]

\* ---------------------------------------------------------------- actions

Init ==
    /\ pc = "idle"
    /\ arg = Unbound
    /\ ret = Unbound
    /\ paths = <<>>
    /\ layers = <<>>
    /\ i = 0
    /\ geo = Unbound
    /\ j = 0
    /\ layer_data = <<>>
    /\ layer_shape_type = <<>>
    /\ layer_shape_edge_width = <<>>
    /\ layer_shape_edge_color = <<>>
    /\ layer_shape_face_color = <<>>
    /\ handles = {}
    /\ opened = <<>>

\* The host probes the hook with a value (lines 27-29).
Sniff ==
    /\ pc = "idle"
    /\ \E a \in SniffInputs :
          /\ arg' = a
          /\ ret' = [kind |-> "value", val |-> napari_get_reader(a)]
    /\ pc' = "sniffed"
    /\ UNCHANGED <<paths, layers, i, geo, j, listVars, handles, opened>>

\* geojson_reader is called (lines 55-59).
Call ==
    /\ pc = "idle"
    /\ \E a \in ReaderInputs :
          /\ arg' = a
          /\ paths' = AsPaths(a)
    /\ layers' = <<>>
    /\ pc' = "for"
    /\ UNCHANGED <<ret, i, geo, j, listVars, handles, opened>>

\* The for loop takes the next path, empties the five lists and opens the
\* file (lines 61-68).
OpenPath ==
    /\ pc = "for"
    /\ i < Len(paths)
    /\ i' = i + 1
    /\ SetLists(EmptyLists)
    /\ opened' = Append(opened, paths[i + 1])
    /\ handles' = handles \cup {i + 1}
    /\ pc' = "with"
    /\ UNCHANGED <<arg, ret, paths, layers, geo, j>>

\* The same, and open() raises: there is no such file.
OpenFails ==
    /\ pc = "for"
    /\ i < Len(paths)
    /\ i' = i + 1
    /\ SetLists(EmptyLists)
    /\ opened' = Append(opened, paths[i + 1])
    /\ ret' = Propagate([type |-> "FileNotFoundError", msg |-> <<>>], layers)
    /\ pc' = "raised"
    /\ UNCHANGED <<arg, paths, layers, geo, j, handles>>

\* geojson.load(fp) gives the object of the file (line 69).
Load ==
    /\ pc = "with"
    /\ \E g \in GeoObjects : geo' = g
    /\ pc' = "check"
    /\ UNCHANGED <<arg, ret, paths, layers, i, j, listVars, handles, opened>>

\* geojson.load(fp) raises: the file is not JSON.
LoadFails ==
    /\ pc = "with"
    /\ ret' = Pending([type |-> "JSONDecodeError", msg |-> <<>>])
    /\ pc' = "unwind"
    /\ UNCHANGED <<arg, paths, layers, i, geo, j, listVars, handles, opened>>

\* The test of the top-level type (lines 70-71).
CheckType ==
    /\ pc = "check"
    /\ IF IsFeatureCollection(geo)
       THEN /\ pc' = "features"
            /\ j' = 0
            /\ ret' = ret
       ELSE /\ pc' = "unwind"
            /\ j' = j
            /\ ret' = Pending(FormatError(geo))
    /\ UNCHANGED <<arg, paths, layers, i, geo, listVars, handles, opened>>

\* One feature of the file goes through the loop body (lines 72-91).
Feature ==
    /\ pc = "features"
    /\ j < Len(geo.features)
    /\ j' = j + 1
    /\ LET r == LoopBody(Lists, geo.features[j + 1])
       IN  /\ SetLists(r.lists)
           /\ IF r.exc = "none"
              THEN pc' = pc /\ ret' = ret
              ELSE pc' = "unwind" /\ ret' = Pending([type |-> r.exc, msg |-> <<>>])
    /\ UNCHANGED <<arg, paths, layers, i, geo, handles, opened>>

\* The features are done: the with block ends and the layer of the file is
\* appended (lines 93-104).
ExitWith ==
    /\ pc = "features"
    /\ j = Len(geo.features)
    /\ handles' = CloseOnExit(handles, i)
    /\ layers' = AppendLayer(layers, LayerTuple(Lists))
    /\ pc' = "for"
    /\ UNCHANGED <<arg, ret, paths, i, geo, j, listVars, opened>>

\* An exception raised inside the with block leaves it, and the function.
Unwind ==
    /\ pc = "unwind"
    /\ handles' = CloseOnExit(handles, i)
    /\ ret' = Propagate(ret.exc, layers)
    /\ pc' = "raised"
    /\ UNCHANGED <<arg, paths, layers, i, geo, j, listVars, opened>>

\* return layers (line 105).
Return ==
    /\ pc = "for"
    /\ i = Len(paths)
    /\ ret' = [kind |-> "value", val |-> layers]
    /\ pc' = "returned"
    /\ UNCHANGED <<arg, paths, layers, i, geo, j, listVars, handles, opened>>

Next ==
    \/ Sniff
    \/ Call
    \/ OpenPath
    \/ OpenFails
    \/ Load
    \/ LoadFails
    \/ CheckType
    \/ Feature
    \/ ExitWith
    \/ Unwind
    \/ Return

Spec == Init /\ [][Next]_vars

\* ------------------------------------------------------------- the claims

\* A path with trailing slashes and "/." parts removed.
RECURSIVE StripTrail(_)
StripTrail(s) ==
    LET n == Len(s)
    IN  IF n >= 1 /\ s[n] = "/" THEN StripTrail(SubSeq(s, 1, n - 1))
        ELSE IF n >= 2 /\ s[n - 1] = "/" /\ s[n] = "."
             THEN StripTrail(SubSeq(s, 1, n - 2))
        ELSE s

\* The file name ends in ".geojson" in some mix of upper and lower case, after
\* at least one character of the name.
HasGeojsonExtension(s) ==
    LET t == StripTrail(s)
        n == Len(t)
    IN  /\ n >= 9
        /\ t[n - 8] # "/"
        /\ t[n - 7] = "."
        /\ t[n - 6] \in {"g", "G"}
        /\ t[n - 5] \in {"e", "E"}
        /\ t[n - 4] \in {"o", "O"}
        /\ t[n - 3] \in {"j", "J"}
        /\ t[n - 2] \in {"s", "S"}
        /\ t[n - 1] \in {"o", "O"}
        /\ t[n] \in {"n", "N"}

\* The feature is one the reader accepts: a Polygon that builds and is valid.
IsAcceptedPolygon(f) ==
    /\ f.geometry.type = StrPolygon
    /\ PolygonBuilds(f.geometry.coordinates)
    /\ is_valid(shape(f.geometry))

\* The feature builds and fails the validity test.
IsInvalid(f) ==
    /\ "exception" \notin DOMAIN shape(f.geometry)
    /\ ~is_valid(shape(f.geometry))

\* The feature is a valid Point or LineString.
IsValidPointOrLine(f) ==
    /\ f.geometry.type \in {StrPoint, StrLineString}
    /\ "exception" \notin DOMAIN shape(f.geometry)
    /\ is_valid(shape(f.geometry))

Accepted(fs) == SelectSeq(fs, IsAcceptedPolygon)

\* The exterior rings of the accepted features, in feature order.
ExpectedData(fs) ==
    [k \in 1..Len(Accepted(fs)) |->
        CloseRing(Accepted(fs)[k].geometry.coordinates[1])]

NumAccepted(fs) == Cardinality({ k \in 1..Len(fs) : IsAcceptedPolygon(fs[k]) })

\* s holds t as a substring.
Contains(s, t) ==
    \E k \in 1..(Len(s) - Len(t) + 1) : SubSeq(s, k, k + Len(t) - 1) = t

IsFormatErr(r) ==
    /\ r.kind \in {"pending", "exception"}
    /\ r.exc.type = "RuntimeError"

\* The file of path i has been read to its end and its layer appended.
FileDone == pc \in {"for", "returned"} /\ i > 0 /\ Len(layers) = i

\* C1: napari_get_reader gives geojson_reader exactly for a string whose
\* extension is ".geojson" in any case, gives None for every other string
\* and for every value that is no string, raises nothing and opens no file.
C1_SnifferDecides ==
    pc = "sniffed" =>
        /\ ret.kind = "value"
        /\ ret.val \in {ReaderRef, NoneVal}
        /\ ret.val = ReaderRef <=>
              (arg.kind = "str" /\ HasGeojsonExtension(arg.val))
        /\ opened = <<>>
        /\ handles = {}

C1_Witness ==
    /\ pc = "sniffed"
    /\ arg = StrVal(<<"d","/","a",".","b",".","G","e","o","J","S","O","N","/",".">>)
    /\ ret.val = ReaderRef

\* C2: a call of geojson_reader that returns gives one record for each path,
\* in the order of the paths (the record of path i is built from what path i
\* held and is not touched again), each tagged "shapes"; a single string
\* gives one record.
C2_OneRecordPerPath ==
    /\ [](/\ pc = "returned" =>
                /\ ret.kind = "value"
                /\ Len(ret.val) = Len(paths)
                /\ \A k \in 1..Len(ret.val) : ret.val[k][3] = "shapes"
                /\ arg.kind = "str" => Len(ret.val) = 1
          /\ pc \in {"for", "returned"} /\ i > 0 =>
                /\ Len(layers) = i
                /\ opened[i] = paths[i]
                /\ layers[i][1] = ExpectedData(geo.features)
                /\ Len(layers[i][2].shape_type) = NumAccepted(geo.features))
    /\ [][pc # "idle" =>
            \A k \in 1..Len(layers) : Len(layers') >= k /\ layers'[k] = layers[k]]_vars

C2_Witness ==
    /\ pc = "returned"
    /\ Len(paths) = 2
    /\ Len(ret.val) = 2
    /\ ret.val[1][1] = <<OuterRing>>
    /\ ret.val[2][1] = <<SquareRing>>

\* C3: a valid Point or LineString feature adds nothing to any of the five
\* lists, raises nothing, and the loop goes on to the next feature.
C3_PointAndLineAreSkipped ==
    [][(/\ pc = "features"
        /\ j < Len(geo.features)
        /\ IsValidPointOrLine(geo.features[j + 1]))
       => /\ UNCHANGED listVars
          /\ pc' = "features"
          /\ j' = j + 1]_vars

\* C4: in every record the coordinate list and the shape_type, edge_width,
\* edge_color and face_color lists have the same length, the number of
\* accepted features of the file.
C4_EqualLengths ==
    /\ \A k \in 1..Len(layers) :
          LET n == Len(layers[k][1])
              m == layers[k][2]
          IN  /\ Len(m.shape_type) = n
              /\ Len(m.edge_width) = n
              /\ Len(m.edge_color) = n
              /\ Len(m.face_color) = n
    /\ FileDone => Len(layers[i][1]) = NumAccepted(geo.features)
    /\ pc = "returned" => ret.val = layers

C4_Witness ==
    /\ pc = "returned"
    /\ Len(ret.val) = 1
    /\ geo.features = << [geometry |-> Bowtie], [geometry |-> Square] >>
    /\ Len(ret.val[1][2].edge_width) = 1

\* C5: a file fails with the format error exactly when its top-level type is
\* not FeatureCollection in some case; the error comes before any feature
\* of the file is processed and its message holds the type as written.
C5_FormatError ==
    /\ [](/\ pc = "features" => geo.type \in AcceptedTypes
          /\ IsFormatErr(ret) =>
                /\ geo.type \notin AcceptedTypes
                /\ Contains(ret.exc.msg, geo.type)
                /\ Lists = EmptyLists)
    /\ [][pc = "check" =>
            /\ (pc' = "unwind" /\ IsFormatErr(ret')) <=> geo.type \notin AcceptedTypes
            /\ pc' = "features" <=> geo.type \in AcceptedTypes]_vars

C5_Witness ==
    /\ pc = "raised"
    /\ IsFormatErr(ret)
    /\ geo.type = StrGeometryCollection
    /\ Len(geo.features) = 1
    /\ Contains(ret.exc.msg, StrGeometryCollection)

\* The call has ended at the type test of file i: the object loaded last has
\* a type that is not accepted (a file of such a type is never read to its
\* end, so the object is that of file i).
WrongTypeRaised ==
    /\ pc = "raised"
    /\ "type" \in DOMAIN geo
    /\ geo.type \notin AcceptedTypes

\* C6: a format error on the file at position k ends the call: the caller
\* gets the exception and no record, not even those built for the paths
\* before k, and no path after k is opened.
C6_FormatErrorAborts ==
    /\ [](WrongTypeRaised =>
              /\ ret.kind = "exception"
              /\ ret.exc.type = "RuntimeError"
              /\ "val" \notin DOMAIN ret
              /\ opened = SubSeq(paths, 1, i))
    /\ [][pc # "raised"]_vars

C6_Witness ==
    /\ WrongTypeRaised
    /\ IsFormatErr(ret)
    /\ i = 2
    /\ Len(layers) = 1
    /\ Len(layers[1][1]) = 1

\* C7: for a file of valid Polygon features only, shape_type holds one
\* "polygon" for each feature and the coordinate list one array for each
\* feature, entry k being that of feature k.
C7_PolygonsInOrder ==
    /\ (pc = "features" /\ \A k \in 1..j : IsAcceptedPolygon(geo.features[k])) =>
          /\ layer_shape_type = [k \in 1..j |-> "polygon"]
          /\ layer_data =
                [k \in 1..j |-> CloseRing(geo.features[k].geometry.coordinates[1])]
    /\ (FileDone /\ \A k \in 1..Len(geo.features) : IsAcceptedPolygon(geo.features[k])) =>
          /\ layers[i][2].shape_type = [k \in 1..Len(geo.features) |-> "polygon"]
          /\ layers[i][1] =
                [k \in 1..Len(geo.features) |->
                    CloseRing(geo.features[k].geometry.coordinates[1])]

C7_Witness ==
    /\ pc = "returned"
    /\ Len(ret.val) = 1
    /\ geo.features = << [geometry |-> Holed], [geometry |-> Square] >>
    /\ ret.val[1][1] = <<OuterRing, SquareRing>>
    /\ ret.val[1][2].shape_type = <<"polygon", "polygon">>

\* C8: a feature that fails the validity test adds nothing to any list and
\* raises nothing; the loop goes on, and the lists of the file are those of
\* the file without that feature.
C8_InvalidIsSkipped ==
    /\ [](FileDone => layers[i] = LayerTuple(
              [data       |-> ExpectedData(geo.features),
               shape_type |-> [k \in 1..NumAccepted(geo.features) |-> "polygon"],
               edge_width |-> [k \in 1..NumAccepted(geo.features) |-> 100],
               edge_color |-> [k \in 1..NumAccepted(geo.features) |-> "red"],
               face_color |-> [k \in 1..NumAccepted(geo.features) |-> "blue"]]))
    /\ [][(/\ pc = "features"
           /\ j < Len(geo.features)
           /\ IsInvalid(geo.features[j + 1]))
          => /\ UNCHANGED listVars
             /\ UNCHANGED ret
             /\ pc' = "features"
             /\ j' = j + 1]_vars

C8_Witness ==
    /\ pc = "returned"
    /\ Len(ret.val) = 1
    /\ geo.features = << [geometry |-> Bowtie], [geometry |-> Holed] >>
    /\ ret.val[1][1] = <<OuterRing>>

\* C9: the files are opened in the order of the paths, at most one is open
\* at a time, and none is open once the call has returned or raised.
C9_HandlesReleased ==
    /\ Cardinality(handles) <= 1
    /\ handles \subseteq {i}
    /\ Len(opened) = i
    /\ opened = SubSeq(paths, 1, i)
    /\ pc \in {"for", "returned", "raised"} => handles = {}

C9_Witness ==
    /\ pc = "raised"
    /\ ret.exc.type = "AttributeError"
    /\ i = 2
    /\ opened = <<PathA, PathB>>
    /\ handles = {}

\* C10: the array of an accepted polygon is its exterior ring, one (x, y) row
\* for each vertex in ring order, the closing vertex included; the unit
\* square gives its five rows; no vertex of a hole is in it.
C10_ExteriorRing ==
    (pc = "features" /\ j >= 1 /\ IsAcceptedPolygon(geo.features[j])) =>
        LET g   == geo.features[j].geometry
            out == layer_data[Len(layer_data)]
        IN  /\ out = CloseRing(g.coordinates[1])
            /\ out[1] = out[Len(out)]
            /\ g = Square =>
                  out = << <<0,0>>, <<0,1>>, <<1,1>>, <<1,0>>, <<0,0>> >>
            /\ \A h \in 2..Len(g.coordinates) :
                  \A v \in 1..Len(g.coordinates[h]) :
                      \A k \in 1..Len(out) : out[k] # g.coordinates[h][v]

C10_Witness ==
    /\ pc = "features"
    /\ j = 2
    /\ geo.features[2].geometry = Holed
    /\ layer_data[Len(layer_data)] = OuterRing

====
